---- MODULE Spec2Model ----
(***************************************************************************)
(* Model of the user-storage adapters of db_adapter.py: the document-store *)
(* adapter (MongoDBAdapter) and the relational adapter (SQLAdapter), their *)
(* lifecycle (connect / disconnect / health_check) and the five user       *)
(* operations, called one at a time.                                       *)
(*                                                                         *)
(* Field values are opaque tokens (the adapters never compute with a name, *)
(* an email or an age), so they are modelled as strings; Python's None is  *)
(* the token None.  A document or a payload is a function from the keys it *)
(* contains to their values, so "key absent" and "key present with None"   *)
(* are different, as they are for a Python dict.                           *)
(***************************************************************************)
EXTENDS Integers, Sequences, FiniteSets, TLC

\* ------------------------------------------------------------------ bounds
\* The number of records that may be inserted in one behaviour.
MaxCreates == 2

\* The records the HTTP service may insert in one lifetime.
MaxServiceCreates == 1

\* The adapter calls that concurrent requests may start in one run.
MaxCalls == 3
MaxUrlLen == 4

\* ------------------------------------------------------------ input values
None == "None"
Emails == {"a@x.com", "b@x.com"}
Names == {"Ann", "Bob"}
Ages == {"31"}

StoreKinds == {"mongodb", "sql"}

\* The values a payload key may carry.
ValuesOf(k) ==
  CASE k = "name" -> Names \cup {None}
    [] k = "email" -> Emails \cup {None}
    [] k = "age" -> Ages \cup {None}

AnyValue == Names \cup Emails \cup Ages \cup {None}

Payloads(S) == {f \in [S -> AnyValue] : \A k \in S : f[k] \in ValuesOf(k)}

\* server.py UserCreate dumped: name and email are required strings, age is
\* always present and may be null; the model has no id field.
CreateData ==
  {d \in Payloads({"name", "email", "age"}) : d["name"] # None /\ d["email"] # None}

\* server.py UserUpdate dumped with exclude_unset: any subset of the three
\* keys, each possibly set to null.
UpdateData == UNION {Payloads(S) : S \in SUBSET {"name", "email", "age"}}

VARIABLES
  kind,        \* which adapter the factory built
  library,     \* the driver library could be imported (Motor / SQLAlchemy)
  client,      \* MongoDBAdapter.client / SQLAdapter.async_engine
  db,          \* MongoDBAdapter.db / SQLAdapter.AsyncSession: None or set
  reachable,   \* the store answers round-trips (environment)
  initialized, \* the init collection / the users table exists in the store
  phase,       \* outcome of the last lifecycle call
  users,       \* the "users" collection / table, in insertion order
  nextId,      \* next generated identifier (ObjectId / autoincrement)
  last,        \* the last step: the call, its arguments and its outcome
  expected,    \* the records a client expects to be stored (history)
  calls,       \* the adapter calls in flight, one per concurrent request
  ncalls,      \* adapter calls started by concurrent requests
  stage,       \* position of server.py lifespan: startup, serving, stopped
  app_db,      \* app.state.db: None or the adapter
  response     \* the last HTTP response: endpoint and status code

vars == <<kind, library, client, db, reachable, initialized, phase, users, nextId,
          last, expected, calls, ncalls, stage, app_db, response>>

lifeVars == <<kind, library, client, db, reachable, initialized, phase>>
storeVars == <<users, nextId>>
raceVars == <<calls, ncalls>>
httpVars == <<stage, app_db, response>>

\* ----------------------------------------------------------- call outcomes
\* An outcome is a status and the canonical records returned with it.
Return(status, recs) == [status |-> status, users |-> recs]
Raise(exc) == Return(exc, <<>>)

NoData == [k \in {} |-> None]

Call(op, email, data, ret) == [op |-> op, email |-> email, data |-> data, ret |-> ret]

\* The concurrent requests, and a request that has no adapter call in flight.
Tasks == {1, 2}

Idle ==
  [pc |-> "idle", op |-> "none", email |-> None, data |-> NoData,
   ret |-> Return("none", <<>>), loaded |-> NoData, matched |-> 0, written |-> 0,
   passed |-> FALSE, raced |-> FALSE, cause |-> "none"]

NoResponse == [endpoint |-> "none", code |-> 0, adapter |-> "none"]

\* str() of a generated identifier.
Str(n) == ToString(n)

\* ------------------------------------------------------- document adapter
HasKey(d, k) == k \in DOMAIN d

\* Mutant: the keys of the document are copied and none is defaulted.
convert_mongodb_user_to_dict_NoDefaults(user) ==
  [k \in {IF f = "_id" THEN "id" ELSE f : f \in DOMAIN user} |->
     IF k = "id" THEN Str(user["_id"]) ELSE user[k]]

\* Mutant: the identifier is read from "id", a key no document has.
convert_mongodb_user_to_dict_IdKey(user) ==
  [id |-> IF HasKey(user, "id") THEN Str(user["id"]) ELSE "",
   name |-> IF HasKey(user, "name") THEN user["name"] ELSE "",
   email |-> IF HasKey(user, "email") THEN user["email"] ELSE "",
   age |-> IF HasKey(user, "age") THEN user["age"] ELSE None]

convert_mongodb_user_to_dict(user) ==
  [id |-> IF HasKey(user, "_id") THEN Str(user["_id"]) ELSE "",
   name |-> IF HasKey(user, "name") THEN user["name"] ELSE "",
   email |-> IF HasKey(user, "email") THEN user["email"] ELSE "",
   age |-> IF HasKey(user, "age") THEN user["age"] ELSE None]

\* A query {field: v} matches a document whose field equals v; a query for
\* null also matches a document that lacks the field (every document has
\* an _id, and an _id is never null).
Matches(d, field, v) ==
  \/ HasKey(d, field) /\ d[field] = v
  \/ field # "_id" /\ v = None /\ ~HasKey(d, field)

MatchIndexes(coll, field, v) == {i \in 1..Len(coll) : Matches(coll[i], field, v)}

\* collection.find_one: position of the first matching document, 0 if none.
find_one(coll, field, v) ==
  IF MatchIndexes(coll, field, v) = {} THEN 0
  ELSE CHOOSE i \in MatchIndexes(coll, field, v) :
         \A j \in MatchIndexes(coll, field, v) : i <= j

\* Mutant: the collection has a unique index on email, and an insert that
\* would break it is dropped.
insert_one_Unique(coll, doc, oid) ==
  IF \E i \in 1..Len(coll) : HasKey(coll[i], "email") /\ coll[i]["email"] = doc["email"]
  THEN coll
  ELSE Append(coll, [k \in DOMAIN doc \cup {"_id"} |-> IF k = "_id" THEN oid ELSE doc[k]])

\* insert_one: the document gets a generated _id and goes to the end.
insert_one(coll, doc, oid) ==
  Append(coll, [k \in DOMAIN doc \cup {"_id"} |-> IF k = "_id" THEN oid ELSE doc[k]])

\* update_one with $set: the first matching document gets the supplied keys.
update_one(coll, field, v, set) ==
  LET i == find_one(coll, field, v) IN
  IF i = 0 THEN coll
  ELSE [coll EXCEPT ![i] =
          [k \in DOMAIN coll[i] \cup DOMAIN set |->
             IF k \in DOMAIN set THEN set[k] ELSE coll[i][k]]]

RemoveAt(s, i) == [j \in 1..(Len(s) - 1) |-> IF j < i THEN s[j] ELSE s[j + 1]]

\* delete_one: the first matching document is removed.
delete_one(coll, field, v) ==
  LET i == find_one(coll, field, v) IN
  IF i = 0 THEN coll ELSE RemoveAt(coll, i)

Outcome(coll, nid, ret) == [users |-> coll, nextId |-> nid, ret |-> ret]

MongoCreateUser(coll, nid, user_data) ==
  IF find_one(coll, "email", user_data["email"]) # 0
  THEN Outcome(coll, nid, Raise("DuplicateKey"))
  ELSE LET inserted == insert_one(coll, user_data, nid)
           created == find_one(inserted, "_id", nid)
       IN Outcome(inserted, nid + 1,
                  Return("ok", <<convert_mongodb_user_to_dict(inserted[created])>>))

MongoGetAllUsers(coll) ==
  Return("ok", [i \in 1..Len(coll) |-> convert_mongodb_user_to_dict(coll[i])])

MongoGetUserByEmail(coll, email) ==
  LET i == find_one(coll, "email", email) IN
  IF i = 0 THEN Return("absent", <<>>)
  ELSE Return("ok", <<convert_mongodb_user_to_dict(coll[i])>>)

\* Mutant: the new email is not looked up before the write.
MongoUpdateUser_NoEmailCheck(coll, nid, email, update_data, emptySetOk) ==
  IF find_one(coll, "email", email) = 0
  THEN Outcome(coll, nid, Return("absent", <<>>))
  ELSE IF DOMAIN update_data = {} /\ ~emptySetOk
  THEN Outcome(coll, nid, Raise("Failure"))
  ELSE LET updated == update_one(coll, "email", email, update_data)
           updated_email == IF HasKey(update_data, "email")
                            THEN update_data["email"] ELSE email
           i == find_one(updated, "email", updated_email)
       IN IF i = 0 THEN Outcome(updated, nid, Return("absent", <<>>))
          ELSE Outcome(updated, nid,
                       Return("ok", <<convert_mongodb_user_to_dict(updated[i])>>))

\* Mutant: the new email is looked up after the write instead of before it.
MongoUpdateUser_CheckAfterWrite(coll, nid, email, update_data, emptySetOk) ==
  IF find_one(coll, "email", email) = 0
  THEN Outcome(coll, nid, Return("absent", <<>>))
  ELSE IF DOMAIN update_data = {} /\ ~emptySetOk
  THEN Outcome(coll, nid, Raise("Failure"))
  ELSE LET updated == update_one(coll, "email", email, update_data)
           updated_email == IF HasKey(update_data, "email")
                            THEN update_data["email"] ELSE email
           i == find_one(updated, "email", updated_email)
       IN IF /\ HasKey(update_data, "email")
             /\ update_data["email"] # email
             /\ find_one(coll, "email", update_data["email"]) # 0
          THEN Outcome(updated, nid, Raise("DuplicateKey"))
          ELSE IF i = 0 THEN Outcome(updated, nid, Return("absent", <<>>))
          ELSE Outcome(updated, nid,
                       Return("ok", <<convert_mongodb_user_to_dict(updated[i])>>))

\* emptySetOk: whether the server accepts a $set with no fields (it is an
\* error before MongoDB 5.0 and a no-op from 5.0 on).
MongoUpdateUser(coll, nid, email, update_data, emptySetOk) ==
  IF find_one(coll, "email", email) = 0
  THEN Outcome(coll, nid, Return("absent", <<>>))
  ELSE IF /\ HasKey(update_data, "email")
          /\ update_data["email"] # email
          /\ find_one(coll, "email", update_data["email"]) # 0
  THEN Outcome(coll, nid, Raise("DuplicateKey"))
  ELSE IF DOMAIN update_data = {} /\ ~emptySetOk
  THEN Outcome(coll, nid, Raise("Failure"))
  ELSE LET updated == update_one(coll, "email", email, update_data)
           updated_email == IF HasKey(update_data, "email")
                            THEN update_data["email"] ELSE email
           i == find_one(updated, "email", updated_email)
       IN IF i = 0 THEN Outcome(updated, nid, Return("absent", <<>>))
          ELSE Outcome(updated, nid,
                       Return("ok", <<convert_mongodb_user_to_dict(updated[i])>>))

\* Mutant: the result is the acknowledgement, not the deleted count.
MongoDeleteUser_Acknowledged(coll, nid, email) ==
  Outcome(delete_one(coll, "email", email), nid, Return("true", <<>>))

MongoDeleteUser(coll, nid, email) ==
  LET deleted_count == IF find_one(coll, "email", email) = 0 THEN 0 ELSE 1 IN
  Outcome(delete_one(coll, "email", email), nid,
          IF deleted_count = 1 THEN Return("true", <<>>) ELSE Return("false", <<>>))

\* ------------------------------------------------------ relational adapter
convert_sql_user_to_dict(user) ==
  [id |-> Str(user["id"]), name |-> user["name"],
   email |-> user["email"], age |-> user["age"]]

\* select(UserModel).where(UserModel.email == email), scalar_one_or_none:
\* position of the row, 0 if there is none.
select_by_email(rows, email) ==
  IF \A i \in 1..Len(rows) : rows[i]["email"] # email THEN 0
  ELSE CHOOSE i \in 1..Len(rows) : rows[i]["email"] = email

\* Mutant: the email column has no UNIQUE constraint.
IntegrityError_NotNull(rows) ==
  \E i \in 1..Len(rows) : rows[i]["name"] = None \/ rows[i]["email"] = None

\* UserModel columns: name and email are NOT NULL, email is UNIQUE.
IntegrityError(rows) ==
  \/ \E i \in 1..Len(rows) : rows[i]["name"] = None \/ rows[i]["email"] = None
  \/ \E i, j \in 1..Len(rows) : i # j /\ rows[i]["email"] = rows[j]["email"]

\* session.commit(): the pending rows replace the table unless a constraint
\* of the table rejects them, and then the session is rolled back.
commit(rows, pending) == IF IntegrityError(pending) THEN rows ELSE pending

\* Mutant: the insert is left to the table's constraint, without a lookup.
SqlCreateUser_NoLookup(rows, nid, user_data) ==
  LET new_user == [id |-> nid,
                   name |-> user_data["name"],
                   email |-> user_data["email"],
                   age |-> IF HasKey(user_data, "age") THEN user_data["age"] ELSE None]
      pending == Append(rows, new_user)
  IN IF IntegrityError(pending)
     THEN Outcome(commit(rows, pending), nid, Raise("Failure"))
     ELSE Outcome(commit(rows, pending), nid + 1,
                  Return("ok", <<convert_sql_user_to_dict(new_user)>>))

SqlCreateUser(rows, nid, user_data) ==
  IF select_by_email(rows, user_data["email"]) # 0
  THEN Outcome(rows, nid, Raise("DuplicateKey"))
  ELSE LET new_user == [id |-> nid,
                        name |-> user_data["name"],
                        email |-> user_data["email"],
                        age |-> IF HasKey(user_data, "age")
                                THEN user_data["age"] ELSE None]
           pending == Append(rows, new_user)
       IN IF IntegrityError(pending)
          THEN Outcome(commit(rows, pending), nid, Raise("Failure"))
          ELSE Outcome(commit(rows, pending), nid + 1,
                       Return("ok", <<convert_sql_user_to_dict(new_user)>>))

\* Mutant: only the first row of the result is read.
SqlGetAllUsers_First(rows) ==
  Return("ok", [i \in 1..(IF Len(rows) = 0 THEN 0 ELSE 1) |->
                  convert_sql_user_to_dict(rows[i])])

SqlGetAllUsers(rows) ==
  Return("ok", [i \in 1..Len(rows) |-> convert_sql_user_to_dict(rows[i])])

SqlGetUserByEmail(rows, email) ==
  LET i == select_by_email(rows, email) IN
  IF i = 0 THEN Return("absent", <<>>)
  ELSE Return("ok", <<convert_sql_user_to_dict(rows[i])>>)

\* Mutant: age is assigned without the test for its key, a missing key as
\* null.
assign_fields_AgeAlways(user, update_data) ==
  [k \in DOMAIN user |->
     IF k \in {"name", "email"} /\ HasKey(update_data, k) THEN update_data[k]
     ELSE IF k = "age" THEN (IF HasKey(update_data, k) THEN update_data[k] ELSE None)
     ELSE user[k]]

\* The attribute assignments of update_user: only the keys that are present.
assign_fields(user, update_data) ==
  [k \in DOMAIN user |->
     IF k \in {"name", "email", "age"} /\ HasKey(update_data, k)
     THEN update_data[k] ELSE user[k]]

\* Mutant: a lookup that finds nothing is not tested, and the first
\* attribute access on None raises.
SqlUpdateUser_NoneUnchecked(rows, nid, email, update_data) ==
  LET i == select_by_email(rows, email) IN
  IF i = 0
  THEN Outcome(rows, nid, Raise("Failure"))
  ELSE IF /\ HasKey(update_data, "email")
          /\ update_data["email"] # email
          /\ select_by_email(rows, update_data["email"]) # 0
  THEN Outcome(rows, nid, Raise("DuplicateKey"))
  ELSE LET pending == [rows EXCEPT ![i] = assign_fields(rows[i], update_data)] IN
       IF IntegrityError(pending)
       THEN Outcome(commit(rows, pending), nid, Raise("Failure"))
       ELSE Outcome(commit(rows, pending), nid,
                    Return("ok", <<convert_sql_user_to_dict(pending[i])>>))

\* Mutant: the row is deleted and inserted again, so it gets a new id.
SqlUpdateUser_Reinsert(rows, nid, email, update_data) ==
  LET i == select_by_email(rows, email) IN
  IF i = 0
  THEN Outcome(rows, nid, Return("absent", <<>>))
  ELSE IF /\ HasKey(update_data, "email")
          /\ update_data["email"] # email
          /\ select_by_email(rows, update_data["email"]) # 0
  THEN Outcome(rows, nid, Raise("DuplicateKey"))
  ELSE LET new_user == [assign_fields(rows[i], update_data) EXCEPT !["id"] = nid]
           pending == [rows EXCEPT ![i] = new_user]
       IN IF IntegrityError(pending)
          THEN Outcome(commit(rows, pending), nid, Raise("Failure"))
          ELSE Outcome(commit(rows, pending), nid + 1,
                       Return("ok", <<convert_sql_user_to_dict(new_user)>>))

SqlUpdateUser(rows, nid, email, update_data) ==
  LET i == select_by_email(rows, email) IN
  IF i = 0
  THEN Outcome(rows, nid, Return("absent", <<>>))
  ELSE IF /\ HasKey(update_data, "email")
          /\ update_data["email"] # email
          /\ select_by_email(rows, update_data["email"]) # 0
  THEN Outcome(rows, nid, Raise("DuplicateKey"))
  ELSE LET pending == [rows EXCEPT ![i] = assign_fields(rows[i], update_data)] IN
       IF IntegrityError(pending)
       THEN Outcome(commit(rows, pending), nid, Raise("Failure"))
       ELSE Outcome(commit(rows, pending), nid,
                    Return("ok", <<convert_sql_user_to_dict(pending[i])>>))

SqlDeleteUser(rows, nid, email) ==
  LET i == select_by_email(rows, email) IN
  IF i = 0 THEN Outcome(rows, nid, Return("false", <<>>))
  ELSE Outcome(commit(rows, RemoveAt(rows, i)), nid, Return("true", <<>>))

\* ----------------------------------------------------------------- state
\* MongoDBAdapter.__init__ leaves client and db None; SQLAdapter.__init__
\* builds the engine and the session factory when SQLAlchemy is importable.
Init ==
  /\ kind \in StoreKinds
  /\ library \in BOOLEAN
  /\ client = IF kind = "sql" /\ library THEN "open" ELSE None
  /\ db = IF kind = "sql" /\ library THEN "set" ELSE None
  /\ reachable \in BOOLEAN
  /\ initialized = FALSE
  /\ phase = "constructed"
  /\ users = <<>>
  /\ nextId = 1
  /\ last = Call("init", None, NoData, Return("ok", <<>>))
  /\ expected = {}
  /\ calls = [t \in Tasks |-> Idle]
  /\ ncalls = 0
  /\ stage = "startup"
  /\ app_db = None
  /\ response = NoResponse

\* ------------------------------------------------------------- lifecycle
\* The step of connect that failed: "library" (driver missing), "client"
\* (the client constructor), "ping" (the reachability round-trip), "init"
\* (the init collection / the users table was not created), or "none".
FailedStep(failed) == [failed |-> failed]

ConnectOutcome(c, d, init, failed, ret) ==
  [client |-> c, db |-> d, initialized |-> init, failed |-> failed, ret |-> ret]

\* MongoDBAdapter.connect.  uriOk: the client constructor accepts the URI.
\* initOk: create_collection succeeds; its failure is swallowed.
MongoConnect(uriOk, initOk) ==
  IF ~library THEN ConnectOutcome(client, db, initialized, "library", FALSE)
  ELSE IF ~uriOk THEN ConnectOutcome(client, db, initialized, "client", FALSE)
  ELSE IF ~reachable THEN ConnectOutcome("open", "set", initialized, "ping", FALSE)
  ELSE ConnectOutcome("open", "set", initialized \/ initOk,
                      IF initialized \/ initOk THEN "none" ELSE "init", TRUE)

\* SQLAdapter.connect: engine.begin() and create_all inside one try block.
\* initOk: create_all succeeds on a reachable store.
SqlConnect(initOk) ==
  IF ~library THEN ConnectOutcome(client, db, initialized, "library", FALSE)
  ELSE IF ~reachable THEN ConnectOutcome(client, db, initialized, "ping", FALSE)
  ELSE IF ~initOk THEN ConnectOutcome(client, db, initialized, "init", FALSE)
  ELSE ConnectOutcome(client, db, TRUE, "none", TRUE)

AdapterConnect(uriOk, initOk) ==
  IF kind = "mongodb" THEN MongoConnect(uriOk, initOk) ELSE SqlConnect(initOk)

\* The effect of a connect() call on the adapter and the store.
Connected(r) ==
  /\ client' = r.client
  /\ db' = r.db
  /\ initialized' = r.initialized
  /\ phase' = IF r.ret THEN "connected" ELSE "connect_failed"
  /\ last' = Call("connect", None, FailedStep(r.failed),
                  Return(IF r.ret THEN "true" ELSE "false", <<>>))
  /\ UNCHANGED <<kind, library, reachable, users, nextId, expected, raceVars>>

connect ==
  \E uriOk, initOk \in BOOLEAN :
    /\ Connected(AdapterConnect(uriOk, initOk))
    /\ UNCHANGED httpVars

\* MongoDBAdapter.disconnect / SQLAdapter.disconnect: client.close() /
\* async_engine.dispose(), skipped when there is no client, and called
\* outside any try block.  closeOk: the driver's close does not raise.
AdapterDisconnect(closeOk) ==
  IF client = None THEN [client |-> client, ret |-> Return("ok", <<>>)]
  ELSE IF ~closeOk THEN [client |-> client, ret |-> Raise("Failure")]
  ELSE [client |-> "closed", ret |-> Return("ok", <<>>)]

\* The effect of a disconnect() call on the adapter.
Disconnected(r) ==
  /\ client' = r.client
  /\ phase' = "disconnected"
  /\ last' = Call("disconnect", None, NoData, r.ret)
  /\ UNCHANGED <<kind, library, db, reachable, initialized, users, nextId, expected,
                 raceVars>>

disconnect ==
  \E closeOk \in BOOLEAN :
    /\ Disconnected(AdapterDisconnect(closeOk))
    /\ UNCHANGED httpVars

\* MongoDBAdapter.health_check: db.command(ping) inside try/except, so
\* every failure becomes False.  reopens: a closed client reconnects on use
\* (PyMongo 3) instead of raising InvalidOperation (PyMongo 4).
MongoHealthCheck(reopens) ==
  IF db = None THEN Return("false", <<>>)
  ELSE IF client = "closed" /\ ~reopens THEN Return("false", <<>>)
  ELSE IF ~reachable THEN Return("false", <<>>)
  ELSE Return("true", <<>>)

\* Mutant: the probe runs outside the try block, so its failure is raised.
SqlHealthCheck_NoCatch ==
  IF db = None THEN Raise("Failure")
  ELSE IF ~reachable THEN Raise("Failure")
  ELSE Return("true", <<>>)

\* SQLAdapter.health_check: a new session runs SELECT 1 inside try/except;
\* a disposed engine opens a fresh pool on use.
SqlHealthCheck ==
  IF db = None THEN Return("false", <<>>)
  ELSE IF ~reachable THEN Return("false", <<>>)
  ELSE Return("true", <<>>)

health_check ==
  \E reopens \in BOOLEAN :
    /\ last' = Call("health_check", None, NoData,
                    IF kind = "mongodb" THEN MongoHealthCheck(reopens)
                    ELSE SqlHealthCheck)
    /\ UNCHANGED <<lifeVars, storeVars, expected, raceVars, httpVars>>

\* The environment: the store goes down or comes back between calls.
StoreDown ==
  /\ reachable
  /\ reachable' = FALSE
  /\ last' = Call("StoreDown", None, NoData, Return("ok", <<>>))
  /\ UNCHANGED <<kind, library, client, db, initialized, phase, users, nextId, expected,
                 raceVars, httpVars>>

StoreUp ==
  /\ ~reachable
  /\ reachable' = TRUE
  /\ last' = Call("StoreUp", None, NoData, Return("ok", <<>>))
  /\ UNCHANGED <<kind, library, client, db, initialized, phase, users, nextId, expected,
                 raceVars, httpVars>>

\* --------------------------------------------------------- user operations
\* DatabaseAdapter: the contract, implemented by the adapter that was built.
AdapterCreateUser(coll, nid, user_data) ==
  IF kind = "mongodb" THEN MongoCreateUser(coll, nid, user_data)
  ELSE SqlCreateUser(coll, nid, user_data)

AdapterGetAllUsers(coll) ==
  IF kind = "mongodb" THEN MongoGetAllUsers(coll) ELSE SqlGetAllUsers(coll)

AdapterGetUserByEmail(coll, email) ==
  IF kind = "mongodb" THEN MongoGetUserByEmail(coll, email)
  ELSE SqlGetUserByEmail(coll, email)

AdapterUpdateUser(coll, nid, email, update_data, emptySetOk) ==
  IF kind = "mongodb" THEN MongoUpdateUser(coll, nid, email, update_data, emptySetOk)
  ELSE SqlUpdateUser(coll, nid, email, update_data)

AdapterDeleteUser(coll, nid, email) ==
  IF kind = "mongodb" THEN MongoDeleteUser(coll, nid, email)
  ELSE SqlDeleteUser(coll, nid, email)

\* server.py lifespan: requests reach the adapter between a connect() that
\* returned true and disconnect().
Serving == phase = "connected"

\* The records a client of the service expects to be stored, from the
\* outcomes it was given: a created record is there, an updated record
\* replaces the one it looked up, a deleted record is gone.
Expect(op, email, ret) ==
  CASE op = "create_user" /\ ret.status = "ok" ->
         expected \cup {ret.users[1]}
    [] op = "update_user" /\ ret.status = "ok" ->
         {r \in expected : r.email # email} \cup {ret.users[1]}
    [] op = "delete_user" /\ ret.status = "true" ->
         {r \in expected : r.email # email}
    [] OTHER -> expected

Apply(op, email, data, out) ==
  /\ users' = out.users
  /\ nextId' = out.nextId
  /\ last' = Call(op, email, data, out.ret)
  /\ expected' = Expect(op, email, out.ret)
  /\ UNCHANGED <<lifeVars, raceVars, httpVars>>

\* A round-trip to an unreachable store raises: the call fails at its first
\* round-trip, before it has written anything.
Answer(op, email, data, out) ==
  IF reachable THEN Apply(op, email, data, out)
  ELSE Apply(op, email, data, Outcome(users, nextId, Raise("Failure")))

\* Inserting is bounded by MaxCreates; a call that inserts nothing is not.
create_user ==
  /\ Serving
  /\ \E user_data \in CreateData :
       LET out == AdapterCreateUser(users, nextId, user_data) IN
       /\ out.nextId = nextId \/ nextId <= MaxCreates
       /\ Answer("create_user", user_data["email"], user_data, out)

get_all_users ==
  /\ Serving
  /\ Answer("get_all_users", None, NoData,
            Outcome(users, nextId, AdapterGetAllUsers(users)))

get_user_by_email ==
  /\ Serving
  /\ \E email \in Emails :
       Answer("get_user_by_email", email, NoData,
              Outcome(users, nextId, AdapterGetUserByEmail(users, email)))

\* The update bodies the requests send: no field, one field, or all three.
RequestUpdateData == {d \in UpdateData : Cardinality(DOMAIN d) # 2}

update_user ==
  /\ Serving
  /\ \E email \in Emails, update_data \in RequestUpdateData :
     \E emptySetOk \in IF DOMAIN update_data = {} THEN BOOLEAN ELSE {TRUE} :
       Answer("update_user", email, update_data,
              AdapterUpdateUser(users, nextId, email, update_data, emptySetOk))

delete_user ==
  /\ Serving
  /\ \E email \in Emails :
       Answer("delete_user", email, NoData, AdapterDeleteUser(users, nextId, email))

Next ==
  \/ connect
  \/ disconnect
  \/ health_check
  \/ StoreDown
  \/ StoreUp
  \/ create_user
  \/ get_all_users
  \/ get_user_by_email
  \/ update_user
  \/ delete_user

Spec == Init /\ [][Next]_vars

\* The lifecycle alone: connect, disconnect and health_check in every order,
\* with the store going down and coming back.
Lifecycle ==
  \/ connect
  \/ disconnect
  \/ health_check
  \/ StoreDown
  \/ StoreUp

LifecycleSpec == Init /\ [][Lifecycle]_vars

\* The service while it serves requests: the state after construction and a
\* connect() that returned true and initialised the store, the store staying
\* up, and the five user operations called one at a time.
ServingInit ==
  /\ kind \in StoreKinds
  /\ library = TRUE
  /\ client = "open"
  /\ db = "set"
  /\ reachable = TRUE
  /\ initialized = TRUE
  /\ phase = "connected"
  /\ users = <<>>
  /\ nextId = 1
  /\ last = Call("connect", None, FailedStep("none"), Return("true", <<>>))
  /\ expected = {}
  /\ calls = [t \in Tasks |-> Idle]
  /\ ncalls = 0
  /\ stage = "serving"
  /\ app_db = "adapter"
  /\ response = NoResponse

UserOps ==
  \/ create_user
  \/ get_all_users
  \/ get_user_by_email
  \/ update_user
  \/ delete_user

ServingSpec == ServingInit /\ [][UserOps]_vars

\* ------------------------------------------------- documents of any shape
\* The users collection is schemaless: a document written by another
\* program may lack any of name, email and age.  A table row has them all.
LegacyFields == [name |-> "Ann", email |-> "a@x.com", age |-> "31"]

LegacyDocs ==
  {[k \in S \cup {"_id"} |-> IF k = "_id" THEN 1 ELSE LegacyFields[k]] :
     S \in SUBSET {"name", "email", "age"}}

LegacyRows ==
  {[k \in {"id", "name", "email", "age"} |-> IF k = "id" THEN 1 ELSE LegacyFields[k]]}

\* The arguments of the converters: a stored document, a dictionary without
\* an _id, a row.
ConvertInputs ==
  IF kind = "mongodb"
  THEN LegacyDocs \cup {[k \in S |-> LegacyFields[k]] : S \in SUBSET {"name", "email", "age"}}
  ELSE LegacyRows

\* The service connected to a store that already holds one record; the
\* store has handed out the identifiers below MaxCreates.
LegacyInit ==
  /\ kind \in StoreKinds
  /\ library = TRUE
  /\ client = "open"
  /\ db = "set"
  /\ reachable = TRUE
  /\ initialized = TRUE
  /\ phase = "connected"
  /\ users \in {<<d>> : d \in IF kind = "mongodb" THEN LegacyDocs ELSE LegacyRows}
  /\ nextId = MaxCreates
  /\ last = Call("connect", None, FailedStep("none"), Return("true", <<>>))
  /\ expected = {}
  /\ calls = [t \in Tasks |-> Idle]
  /\ ncalls = 0
  /\ stage = "serving"
  /\ app_db = "adapter"
  /\ response = NoResponse

\* _convert_mongodb_user_to_dict / _convert_sql_user_to_dict called on a
\* record.
convert_user_to_dict ==
  \E user \in ConvertInputs :
    /\ last' = Call("convert_user_to_dict", None, user,
                    Return("ok", <<IF kind = "mongodb"
                                   THEN convert_mongodb_user_to_dict(user)
                                   ELSE convert_sql_user_to_dict(user)>>))
    /\ UNCHANGED <<lifeVars, storeVars, expected, raceVars, httpVars>>

LegacyOps ==
  \/ convert_user_to_dict
  \/ create_user
  \/ get_all_users
  \/ get_user_by_email
  \/ update_user

LegacySpec == LegacyInit /\ [][LegacyOps]_vars

\* ------------------------------------------------------------------ claims
Stored(coll, email) == {i \in 1..Len(coll) : coll[i]["email"] = email}

\* The identifier the store generated for a stored record.
RecId(d) == IF kind = "mongodb" THEN d["_id"] ELSE d["id"]

Returned(call) == call.ret.users[1]

\* C1: with the calls executed one at a time from an empty store, no two
\* stored user records ever have the same email.
C1_EmailUnique ==
  \A i, j \in 1..Len(users) : i # j => users[i]["email"] # users[j]["email"]

\* Two records are stored and the last call moved one of them to a new email.
C1_Witness ==
  /\ Len(users) = 2
  /\ last.op = "update_user"
  /\ last.ret.status = "ok"
  /\ HasKey(last.data, "email")
  /\ last.data["email"] # last.email

\* C2: create_user with an email that a stored record already has fails with
\* DuplicateKey and leaves the store as it was, with exactly one record of
\* that email.
C2_DuplicateCreate ==
  [][(last'.op = "create_user" /\ Stored(users, last'.email) # {}) =>
       /\ last'.ret.status = "DuplicateKey"
       /\ users' = users
       /\ Cardinality(Stored(users', last'.email)) = 1]_vars

\* A create was refused for a duplicate email.
C2_Witness ==
  /\ last.op = "create_user"
  /\ last.ret.status = "DuplicateKey"
  /\ Stored(users, last.email) # {}

\* C3: create_user with an email not yet stored succeeds and returns a
\* record with a non-empty id and the name, email and age that were given,
\* and a get_user_by_email of that email right after it returns the same
\* record.
C3_CreateReadRoundTrip ==
  [][/\ (last'.op = "create_user" /\ Stored(users, last'.email) = {}) =>
          /\ last'.ret.status = "ok"
          /\ Len(last'.ret.users) = 1
          /\ Returned(last').id # ""
          /\ Returned(last').name = last'.data["name"]
          /\ Returned(last').email = last'.data["email"]
          /\ Returned(last').age = last'.data["age"]
          /\ AdapterGetUserByEmail(users', last'.email) = last'.ret
     /\ (/\ last.op = "create_user" /\ last.ret.status = "ok"
         /\ last'.op = "get_user_by_email" /\ last'.email = last.email) =>
          last'.ret = last.ret]_vars

\* A second record was created and returned with its generated id.
C3_Witness ==
  /\ last.op = "create_user"
  /\ last.ret.status = "ok"
  /\ Len(users) = 2
  /\ Returned(last).id = Str(2)
  /\ Returned(last).age = "31"

UserFields == {"name", "email", "age"}

\* C4: update_user on an existing record changes exactly the fields that are
\* keys of the payload: the record keeps its id and every field the payload
\* does not name, a successful call gives the named fields the supplied
\* values, and every other record is left as it was.
C4_UpdateFrame ==
  [][(last'.op = "update_user" /\ Stored(users, last'.email) # {}) =>
       /\ Len(users') = Len(users)
       /\ \A i \in 1..Len(users) :
            IF users[i]["email"] = last'.email
            THEN /\ RecId(users'[i]) = RecId(users[i])
                 /\ DOMAIN users'[i] = DOMAIN users[i]
                 /\ \A k \in UserFields \ DOMAIN last'.data :
                      users'[i][k] = users[i][k]
                 /\ last'.ret.status = "ok" =>
                      \A k \in DOMAIN last'.data : users'[i][k] = last'.data[k]
            ELSE users'[i] = users[i]]_vars

\* The payload {age: 31} was applied to one of two records, giving it a new age.
C4_Witness ==
  /\ last.op = "update_user"
  /\ last.ret.status = "ok"
  /\ DOMAIN last.data = {"age"}
  /\ last.data["age"] = "31"
  /\ Len(users) = 2
  /\ Returned(last).age = "31"
  /\ \E r \in expected : r.age # "31"

\* C5: update_user whose payload email differs from the lookup email and is
\* held by another stored record fails with DuplicateKey, and neither the
\* looked-up record nor the holder of the target email is changed.
C5_UpdateToTakenEmail ==
  [][(/\ last'.op = "update_user"
      /\ HasKey(last'.data, "email")
      /\ last'.data["email"] # last'.email
      /\ Stored(users, last'.email) # {}
      /\ Stored(users, last'.data["email"]) # {}) =>
       /\ last'.ret.status = "DuplicateKey"
       /\ Len(users') = Len(users)
       /\ \A i \in Stored(users, last'.email) \cup Stored(users, last'.data["email"]) :
            users'[i] = users[i]]_vars

\* An update towards the email of the other record was refused.
C5_Witness ==
  /\ last.op = "update_user"
  /\ last.ret.status = "DuplicateKey"
  /\ Stored(users, last.email) # {}
  /\ Stored(users, last.data["email"]) # {}
  /\ DOMAIN last.data = UserFields

\* C6: update_user with an email that no stored record has returns absent,
\* raises nothing and leaves the store as it was, whatever the payload.
C6_UpdateMissing ==
  [][(last'.op = "update_user" /\ Stored(users, last'.email) = {}) =>
       /\ last'.ret = Return("absent", <<>>)
       /\ users' = users]_vars

\* An update with a full payload found nothing under its lookup email while
\* another record was stored.
C6_Witness ==
  /\ last.op = "update_user"
  /\ last.ret.status = "absent"
  /\ DOMAIN last.data = UserFields
  /\ Len(users) = 1
  /\ Stored(users, last.email) = {}

\* C7: delete_user returns true exactly when a record with that email was
\* stored and the call removed it, and false otherwise; after true a
\* get_user_by_email of that email returns absent and a second delete_user
\* of it returns false.
C7_Delete ==
  [][/\ last'.op = "delete_user" =>
          /\ last'.ret.status \in {"true", "false"}
          /\ last'.ret.status = "true" <=>
               /\ Stored(users, last'.email) # {}
               /\ Stored(users', last'.email) = {}
               /\ Len(users') = Len(users) - 1
          /\ last'.ret.status = "false" => users' = users
          /\ last'.ret.status = "true" =>
               AdapterGetUserByEmail(users', last'.email) = Return("absent", <<>>)
     /\ (/\ last.op = "delete_user" /\ last.ret.status = "true"
         /\ last'.op = "get_user_by_email" /\ last'.email = last.email) =>
          last'.ret = Return("absent", <<>>)
     /\ (/\ last.op = "delete_user" /\ last.ret.status = "true"
         /\ last'.op = "delete_user" /\ last'.email = last.email) =>
          last'.ret = Return("false", <<>>)]_vars

\* One of two records was deleted.
C7_Witness ==
  /\ last.op = "delete_user"
  /\ last.ret.status = "true"
  /\ Len(users) = 1
  /\ Stored(users, last.email) = {}

\* A delete found nothing under an email that had been deleted before.
C7_WitnessFalse ==
  /\ last.op = "delete_user"
  /\ last.ret.status = "false"
  /\ nextId > 1

Range(seq) == {seq[i] : i \in 1..Len(seq)}

\* C8: get_all_users returns exactly the records stored: as a set, the
\* records created and not deleted with their latest updates applied, each
\* once; on an empty store it returns the empty sequence.
C8_GetAllUsers ==
  [][last'.op = "get_all_users" =>
       /\ last'.ret.status = "ok"
       /\ Range(last'.ret.users) = expected
       /\ Len(last'.ret.users) = Cardinality(expected)
       /\ Len(users) = 0 => last'.ret.users = <<>>]_vars

\* Two records were listed after one of them had been updated.
C8_Witness ==
  /\ last.op = "get_all_users"
  /\ Len(last.ret.users) = 2
  /\ \E r \in Range(last.ret.users) : r.name = None \/ r.age = "31"

\* The list of an empty store after a record had been created and deleted.
C8_WitnessEmpty ==
  /\ last.op = "get_all_users"
  /\ last.ret.users = <<>>
  /\ nextId > 1

Ids(coll) == {RecId(coll[i]) : i \in 1..Len(coll)}

\* C9: the id of a record is generated by the store and not taken from the
\* payload, differs from the id of every other stored record, and no
\* update_user changes it, an update of the email included.
C9_IdImmutable ==
  [][/\ Cardinality(Ids(users')) = Len(users')
     /\ (last'.op = "create_user" /\ last'.ret.status = "ok") =>
          /\ Returned(last').id = Str(nextId)
          /\ Ids(users') = Ids(users) \cup {nextId}
          /\ nextId \notin Ids(users)
          /\ nextId' = nextId + 1
     /\ last'.op = "update_user" =>
          /\ Len(users') = Len(users)
          /\ \A i \in 1..Len(users) : RecId(users'[i]) = RecId(users[i])
          /\ last'.ret.status = "ok" =>
               \E i \in Stored(users, last'.email) :
                 Returned(last').id = Str(RecId(users[i]))]_vars

\* An update changed the email of the second record and returned it with
\* the id it was created with.
C9_Witness ==
  /\ last.op = "update_user"
  /\ last.ret.status = "ok"
  /\ HasKey(last.data, "email")
  /\ last.data["email"] # last.email
  /\ Returned(last).id = Str(2)
  /\ Len(users) = 2

\* C10 as claimed: health_check never raises; it returns false when the
\* store is unreachable, before connect, after a connect that returned
\* false, after disconnect and when the driver library is missing, and it
\* returns true only when the probe round-trip succeeded.
C10_HealthCheckAsClaimed ==
  last.op = "health_check" =>
    /\ last.ret.status \in {"true", "false"}
    /\ (\/ ~reachable
        \/ ~library
        \/ phase \in {"constructed", "connect_failed", "disconnected"}) =>
         last.ret.status = "false"
    /\ last.ret.status = "true" => reachable /\ db # None

\* C10: health_check never raises in any adapter state.  It returns false
\* when the store is unreachable, when the driver library is missing and
\* when the adapter has no database handle; it returns true only when the
\* probe round-trip succeeded.  The probe is attempted in every lifecycle
\* phase: the relational adapter answers true against a reachable store
\* before connect, after a connect that returned false and after
\* disconnect, and the document adapter answers true whenever it holds an
\* open client and the store is reachable.
C10_HealthCheck ==
  last.op = "health_check" =>
    /\ last.ret.status \in {"true", "false"}
    /\ (~reachable \/ ~library \/ db = None) => last.ret.status = "false"
    /\ last.ret.status = "true" => reachable /\ library /\ db # None
    /\ (kind = "sql" /\ library /\ reachable) => last.ret.status = "true"
    /\ (kind = "mongodb" /\ client = "open" /\ reachable) => last.ret.status = "true"

\* The relational adapter answered true after disconnect.
C10_Witness ==
  /\ last.op = "health_check"
  /\ last.ret.status = "true"
  /\ kind = "sql"
  /\ phase = "disconnected"

\* ------------------------------------------------------------- HTTP service
\* The values of DB_TYPE, and str.lower on them.
DbTypes == {"mongodb", "MongoDB", "postgresql", "postgres", "mysql", "sqlite", "oracle"}

Lower(t) ==
  CASE t = "MongoDB" -> "mongodb"
    [] t = "SQLite" -> "sqlite"
    [] t = "POSTGRES" -> "postgres"
    [] OTHER -> t

\* Mutant: DB_TYPE is compared as it is written.
get_database_adapter_CaseSensitive(db_type_env) ==
  IF db_type_env = "mongodb" THEN "mongodb"
  ELSE IF db_type_env \in {"postgresql", "postgres", "mysql", "sqlite"} THEN "sql"
  ELSE None

\* db_adapter.get_database_adapter: the adapter built for DB_TYPE, None for
\* a type it does not know.
get_database_adapter(db_type_env) ==
  LET db_type == Lower(db_type_env) IN
  IF db_type = "mongodb" THEN "mongodb"
  ELSE IF db_type \in {"postgresql", "postgres", "mysql", "sqlite"} THEN "sql"
  ELSE None

\* The service process before its lifespan starts.
ServiceInit ==
  /\ \E t \in DbTypes : kind = get_database_adapter(t)
  /\ library \in BOOLEAN
  /\ client = IF kind = "sql" /\ library THEN "open" ELSE None
  /\ db = IF kind = "sql" /\ library THEN "set" ELSE None
  /\ reachable \in BOOLEAN
  /\ initialized = FALSE
  /\ phase = "constructed"
  /\ users = <<>>
  /\ nextId = 1
  /\ last = Call("init", None, NoData, Return("ok", <<>>))
  /\ expected = {}
  /\ calls = [t \in Tasks |-> Idle]
  /\ ncalls = 0
  /\ stage = "startup"
  /\ app_db = None
  /\ response = NoResponse

\* Mutant: the lifespan keeps the adapter whatever connect() returned.
StartupDb_Always(adapter, connected) ==
  IF adapter = None THEN None ELSE "adapter"

\* lifespan, before the yield: the value stored in app.state.db.
StartupDb(adapter, connected) ==
  IF adapter = None THEN None
  ELSE IF connected THEN "adapter"
  ELSE None

\* lifespan, before the yield.
lifespan_startup ==
  /\ stage = "startup"
  /\ stage' = "serving"
  /\ response' = response
  /\ IF kind = None
     THEN /\ app_db' = StartupDb(kind, FALSE)
          /\ UNCHANGED <<lifeVars, storeVars, last, expected, raceVars>>
     ELSE \E uriOk, initOk \in BOOLEAN :
            LET r == AdapterConnect(uriOk, initOk) IN
            /\ Connected(r)
            /\ app_db' = StartupDb(kind, r.ret)

\* lifespan, after the yield: disconnect() only when app.state.db is set.
lifespan_shutdown ==
  /\ stage = "serving"
  /\ stage' = "stopped"
  /\ UNCHANGED <<app_db, response>>
  /\ IF app_db # None
     THEN \E closeOk \in BOOLEAN : Disconnected(AdapterDisconnect(closeOk))
     ELSE UNCHANGED <<lifeVars, storeVars, last, expected, raceVars>>

\* The path parameters a client sends: the stored emails and a string that
\* is not an email address.
PathEmails == Emails \cup {"not-an-email"}

\* The bodies of PUT /update-user a client sends: UserUpdate dumped with
\* exclude_unset, holding at most one field.
ServiceUpdateData == {d \in UpdateData : Cardinality(DOMAIN d) <= 1}

\* email_validator.validate_email as the endpoints call it.
validate_email(email) == email \in Emails

Get(d, k, default) == IF HasKey(d, k) THEN d[k] ELSE default

\* server.user_helper.
user_helper(user) ==
  IF DOMAIN user = {} THEN user
  ELSE [k \in {"id", "name", "email", "age"} |->
          CASE k = "id" -> Get(user, "id", "")
            [] k = "name" -> Get(user, "name", "")
            [] k = "email" -> Get(user, "email", "")
            [] k = "age" -> Get(user, "age", None)]

\* response_model=User: id and name are strings, email is an address, age
\* is an integer or null.
ValidUser(u) ==
  /\ DOMAIN u = {"id", "name", "email", "age"}
  /\ u["id"] # None
  /\ u["name"] # None
  /\ u["email"] \in Emails
  /\ u["age"] \in Ages \cup {None}

ValidUsers(recs) == \A i \in 1..Len(recs) : ValidUser(user_helper(recs[i]))

\* The status code of an endpoint that called the adapter: the except
\* clauses of the endpoint; then, for a returned body, the validation of
\* the response model, whose failure is a 500.
StatusCode(endpoint, ret) ==
  CASE ret.status = "DuplicateKey" ->
         IF endpoint \in {"create_user", "update_user"} THEN 400 ELSE 500
    [] ret.status = "Failure" -> 500
    [] ret.status \in {"absent", "false"} -> 404
    [] ret.status = "true" -> 204
    [] ret.status = "ok" ->
         IF ~ValidUsers(ret.users) THEN 500
         ELSE IF endpoint = "create_user" THEN 201 ELSE 200

Response(endpoint, code, adapter) ==
  [endpoint |-> endpoint, code |-> code, adapter |-> adapter]

\* No adapter in app.state.db: 503, and nothing is called.
Unavailable(endpoint) ==
  /\ response' = Response(endpoint, 503, "none")
  /\ UNCHANGED <<lifeVars, storeVars, last, expected, raceVars, stage, app_db>>

\* The path email is not an address: 400, and nothing is called.
Rejected(endpoint) ==
  /\ response' = Response(endpoint, 400, "none")
  /\ UNCHANGED <<lifeVars, storeVars, last, expected, raceVars, stage, app_db>>

\* The endpoint called the adapter; a round-trip to an unreachable store
\* raises before anything is written.
Handled(endpoint, op, email, data, outcome) ==
  LET out == IF reachable THEN outcome ELSE Outcome(users, nextId, Raise("Failure")) IN
  /\ users' = out.users
  /\ nextId' = out.nextId
  /\ last' = Call(op, email, data, out.ret)
  /\ response' = Response(endpoint, StatusCode(endpoint, out.ret), out.ret.status)
  /\ UNCHANGED <<lifeVars, expected, raceVars, stage, app_db>>

\* POST /create-user.
CreateUserEndpoint ==
  /\ stage = "serving"
  /\ \E user \in CreateData :
       IF app_db = None THEN Unavailable("create_user")
       ELSE LET out == AdapterCreateUser(users, nextId, user) IN
            /\ out.nextId = nextId \/ nextId <= MaxServiceCreates
            /\ Handled("create_user", "create_user", user["email"], user, out)

\* GET /get-all-users.
GetAllUsersEndpoint ==
  /\ stage = "serving"
  /\ IF app_db = None THEN Unavailable("get_all_users")
     ELSE Handled("get_all_users", "get_all_users", None, NoData,
                  Outcome(users, nextId, AdapterGetAllUsers(users)))

\* GET /getuser-by-email/{email}.
GetUserEndpoint ==
  /\ stage = "serving"
  /\ \E email \in PathEmails :
       IF app_db = None THEN Unavailable("get_user")
       ELSE IF ~validate_email(email) THEN Rejected("get_user")
       ELSE Handled("get_user", "get_user_by_email", email, NoData,
                    Outcome(users, nextId, AdapterGetUserByEmail(users, email)))

\* PUT /update-user/{email}.
UpdateUserEndpoint ==
  /\ stage = "serving"
  /\ \E email \in PathEmails, user_update \in ServiceUpdateData :
     \E emptySetOk \in IF DOMAIN user_update = {} THEN BOOLEAN ELSE {TRUE} :
       IF app_db = None THEN Unavailable("update_user")
       ELSE IF ~validate_email(email) THEN Rejected("update_user")
       ELSE Handled("update_user", "update_user", email, user_update,
                    AdapterUpdateUser(users, nextId, email, user_update, emptySetOk))

\* DELETE /delete-user/{email}.
DeleteUserEndpoint ==
  /\ stage = "serving"
  /\ \E email \in PathEmails :
       IF app_db = None THEN Unavailable("delete_user")
       ELSE IF ~validate_email(email) THEN Rejected("delete_user")
       ELSE Handled("delete_user", "delete_user", email, NoData,
                    AdapterDeleteUser(users, nextId, email))

\* GET /health/db.
health_db ==
  /\ stage = "serving"
  /\ IF app_db = None THEN Unavailable("health_db")
     ELSE \E reopens \in BOOLEAN :
            LET healthy == IF kind = "mongodb" THEN MongoHealthCheck(reopens)
                           ELSE SqlHealthCheck IN
            /\ last' = Call("health_check", None, NoData, healthy)
            /\ response' = Response("health_db",
                                    IF healthy.status = "true" THEN 200 ELSE 503,
                                    healthy.status)
            /\ UNCHANGED <<lifeVars, storeVars, expected, raceVars, stage, app_db>>

Service ==
  \/ lifespan_startup
  \/ lifespan_shutdown
  \/ CreateUserEndpoint
  \/ GetAllUsersEndpoint
  \/ GetUserEndpoint
  \/ UpdateUserEndpoint
  \/ DeleteUserEndpoint
  \/ health_db
  \/ StoreDown
  \/ StoreUp

ServiceSpec == ServiceInit /\ [][Service]_vars

\* ------------------------------------------------------ concurrent requests
\* The endpoints are coroutines on one event loop: an adapter call suspends
\* at each await of a store round-trip, and another request's call may run
\* its round-trips in between.  A call in flight is a record: pc is the
\* round-trip it is suspended at (check: the lookup by email, check2: the
\* lookup of the new email, write: insert / update / delete / commit,
\* fetch: the re-read of the written record), loaded is the row an SQL
\* session holds.  History fields: matched is the id of the record the
\* lookup found, written the id of the record the write changed, passed
\* tells that the uniqueness check was passed, raced that the call and
\* another call giving its record the same email had both passed the check
\* when neither had written, cause why the call failed.
RaceCreateData == {d \in CreateData : d["name"] = "Ann" /\ d["age"] = None}

RaceUpdateData == {d \in UpdateData : d \in Payloads({"email"}) /\ d["email"] # None}
                    \cup {d \in Payloads({"name"}) : d["name"] = "Bob"}

Done(c, ret, cause) == [c EXCEPT !.pc = "done", !.ret = ret, !.cause = cause]

Suspend(c, pc) == [c EXCEPT !.pc = pc]

RaceOutcome(coll, nid, c) == [users |-> coll, nextId |-> nid, call |-> c]

\* The position of the row with primary key pk, 0 if it is gone.
select_by_id(rows, pk) ==
  IF \A i \in 1..Len(rows) : rows[i]["id"] # pk THEN 0
  ELSE CHOOSE i \in 1..Len(rows) : rows[i]["id"] = pk

\* The first await of a call: the lookup by email (MongoDBAdapter.delete_user
\* has no lookup and starts at its delete_one).
FirstPc(op) == IF kind = "mongodb" /\ op = "delete_user" THEN "write" ELSE "check"

NeedsCheck2(c) == HasKey(c.data, "email") /\ c.data["email"] # c.email

\* MongoDBAdapter: find_one({"email": email}) of create_user / update_user.
MongoCheck(coll, nid, c) ==
  LET i == find_one(coll, "email", c.email) IN
  IF c.op = "create_user"
  THEN IF i # 0
       THEN RaceOutcome(coll, nid, Done(c, Raise("DuplicateKey"), "collision"))
       ELSE RaceOutcome(coll, nid, [Suspend(c, "write") EXCEPT !.passed = TRUE])
  ELSE IF i = 0
       THEN RaceOutcome(coll, nid, Done(c, Return("absent", <<>>), "none"))
       ELSE RaceOutcome(coll, nid,
                        [Suspend(c, IF NeedsCheck2(c) THEN "check2" ELSE "write")
                           EXCEPT !.matched = coll[i]["_id"]])

\* SQLAdapter: the select by email of create_user / update_user / delete_user.
SqlCheck(rows, nid, c) ==
  LET i == select_by_email(rows, c.email) IN
  IF c.op = "create_user"
  THEN IF i # 0
       THEN RaceOutcome(rows, nid, Done(c, Raise("DuplicateKey"), "collision"))
       ELSE RaceOutcome(rows, nid, [Suspend(c, "write") EXCEPT !.passed = TRUE])
  ELSE IF i = 0
       THEN RaceOutcome(rows, nid,
                        Done(c, Return(IF c.op = "delete_user" THEN "false" ELSE "absent",
                                       <<>>), "none"))
       ELSE RaceOutcome(rows, nid,
                        [Suspend(c, IF c.op = "update_user" /\ NeedsCheck2(c)
                                 THEN "check2" ELSE "write")
                           EXCEPT !.matched = rows[i]["id"], !.loaded = rows[i]])

\* update_user: the lookup of the new email.
MongoCheck2(coll, nid, c) ==
  IF find_one(coll, "email", c.data["email"]) # 0
  THEN RaceOutcome(coll, nid, Done(c, Raise("DuplicateKey"), "collision"))
  ELSE RaceOutcome(coll, nid, [Suspend(c, "write") EXCEPT !.passed = TRUE])

SqlCheck2(rows, nid, c) ==
  IF select_by_email(rows, c.data["email"]) # 0
  THEN RaceOutcome(rows, nid, Done(c, Raise("DuplicateKey"), "collision"))
  ELSE RaceOutcome(rows, nid, [Suspend(c, "write") EXCEPT !.passed = TRUE])

\* MongoDBAdapter: insert_one / update_one / delete_one.
MongoWrite(coll, nid, c) ==
  LET i == find_one(coll, "email", c.email)
      hit == IF i = 0 THEN 0 ELSE coll[i]["_id"]
  IN CASE c.op = "create_user" ->
            RaceOutcome(insert_one(coll, c.data, nid), nid + 1,
                        [Suspend(c, "fetch") EXCEPT !.written = nid])
       [] c.op = "update_user" ->
            RaceOutcome(update_one(coll, "email", c.email, c.data), nid,
                        [Suspend(c, "fetch") EXCEPT !.written = hit])
       [] c.op = "delete_user" ->
            RaceOutcome(delete_one(coll, "email", c.email), nid,
                        [Done(c, Return(IF i # 0 THEN "true" ELSE "false", <<>>), "none")
                           EXCEPT !.written = hit])

\* Why the table rejected the pending rows.
Violation(rows) ==
  IF \E i, j \in 1..Len(rows) : i # j /\ rows[i]["email"] = rows[j]["email"]
  THEN "collision" ELSE "constraint"

\* The attributes of the loaded row that the call changed: the unit of work
\* writes only these.
Changed(c) ==
  [k \in {k \in DOMAIN c.data : c.data[k] # c.loaded[k]} |-> c.data[k]]

\* SQLAdapter: session.commit().  create_user: INSERT.  update_user: UPDATE
\* of the changed columns of the row with the loaded primary key; no row
\* with that key raises StaleDataError.  delete_user: DELETE by primary
\* key; no row with that key is only a warning.
SqlWrite(rows, nid, c) ==
  LET j == select_by_id(rows, c.matched) IN
  CASE c.op = "create_user" ->
         LET new_user == [id |-> nid,
                          name |-> c.data["name"],
                          email |-> c.data["email"],
                          age |-> IF HasKey(c.data, "age") THEN c.data["age"] ELSE None]
             pending == Append(rows, new_user)
         IN IF IntegrityError(pending)
            THEN RaceOutcome(commit(rows, pending), nid,
                             Done(c, Raise("Failure"), Violation(pending)))
            ELSE RaceOutcome(commit(rows, pending), nid + 1,
                             [Suspend(c, "fetch") EXCEPT !.written = nid])
    [] c.op = "update_user" ->
         IF DOMAIN Changed(c) = {}
         THEN RaceOutcome(rows, nid, Suspend(c, "fetch"))
         ELSE IF j = 0
         THEN RaceOutcome(rows, nid, Done(c, Raise("Failure"), "stale"))
         ELSE LET pending == [rows EXCEPT ![j] = assign_fields(rows[j], Changed(c))] IN
              IF IntegrityError(pending)
              THEN RaceOutcome(commit(rows, pending), nid,
                               Done(c, Raise("Failure"), Violation(pending)))
              ELSE RaceOutcome(commit(rows, pending), nid,
                               [Suspend(c, "fetch") EXCEPT !.written = c.matched])
    [] c.op = "delete_user" ->
         IF j = 0
         THEN RaceOutcome(rows, nid, Done(c, Return("true", <<>>), "none"))
         ELSE RaceOutcome(commit(rows, RemoveAt(rows, j)), nid,
                          [Done(c, Return("true", <<>>), "none")
                             EXCEPT !.written = c.matched])

\* MongoDBAdapter: the find_one after the write, by _id in create_user and
\* by the email that is now current in update_user; a document that is not
\* found is returned as None.
MongoFetch(coll, nid, c) ==
  LET i == IF c.op = "create_user" THEN find_one(coll, "_id", c.written)
           ELSE find_one(coll, "email",
                         IF HasKey(c.data, "email") THEN c.data["email"] ELSE c.email)
  IN IF i = 0
     THEN RaceOutcome(coll, nid, Done(c, Return("absent", <<>>), "none"))
     ELSE RaceOutcome(coll, nid,
                      Done(c, Return("ok", <<convert_mongodb_user_to_dict(coll[i])>>),
                           "none"))

\* SQLAdapter: session.refresh(), a select by primary key that raises when
\* the row is gone.
SqlFetch(rows, nid, c) ==
  LET j == select_by_id(rows, IF c.op = "create_user" THEN c.written ELSE c.matched) IN
  IF j = 0
  THEN RaceOutcome(rows, nid, Done(c, Raise("Failure"), "stale"))
  ELSE RaceOutcome(rows, nid,
                   Done(c, Return("ok", <<convert_sql_user_to_dict(rows[j])>>), "none"))

\* The store before the concurrent requests: empty, or one record created
\* by an earlier request.
RaceStores ==
  {<<>>} \cup {AdapterCreateUser(<<>>, 1, d).users : d \in {d \in RaceCreateData :
                                                             d["email"] = "a@x.com"}}

RaceInit ==
  /\ kind \in StoreKinds
  /\ library = TRUE
  /\ client = "open"
  /\ db = "set"
  /\ reachable = TRUE
  /\ initialized = TRUE
  /\ phase = "connected"
  /\ users \in RaceStores
  /\ nextId = Len(users) + 1
  /\ last = Call("connect", None, FailedStep("none"), Return("true", <<>>))
  /\ expected = {}
  /\ calls = [t \in Tasks |-> Idle]
  /\ ncalls = 0
  /\ stage = "serving"
  /\ app_db = "adapter"
  /\ response = NoResponse

\* One round-trip of the call of request t took effect.
Resume(t, out) ==
  /\ users' = out.users
  /\ nextId' = out.nextId
  /\ calls' = [calls EXCEPT ![t] = out.call]
  /\ UNCHANGED <<lifeVars, last, expected, ncalls, httpVars>>

\* A request calls the adapter.
StartCall ==
  \E t \in Tasks :
    /\ calls[t].pc \in {"idle", "done"}
    /\ ncalls < MaxCalls
    /\ \E op \in {"create_user", "update_user", "delete_user"}, email \in Emails :
       \E data \in CASE op = "create_user" -> {d \in RaceCreateData : d["email"] = email}
                     [] op = "update_user" -> RaceUpdateData
                     [] op = "delete_user" -> {NoData} :
         /\ calls' = [calls EXCEPT ![t] =
                        [Idle EXCEPT !.pc = FirstPc(op), !.op = op, !.email = email,
                                     !.data = data]]
         /\ ncalls' = ncalls + 1
         /\ UNCHANGED <<lifeVars, storeVars, last, expected, httpVars>>

\* The email a writing call gives its record.
TargetEmail(c) ==
  IF c.op = "update_user" /\ HasKey(c.data, "email") THEN c.data["email"] ELSE c.email

\* A call that passed the uniqueness check of its email and is suspended
\* before its write.
Writing(c) == c.pc = "write" /\ c.passed

\* The calls suspended before their write that give their record the email
\* that call c of request t, now before its write too, gives its own.
Rivals(t, c) ==
  {u \in Tasks \ {t} :
     Writing(c) /\ Writing(calls[u]) /\ TargetEmail(calls[u]) = TargetEmail(c)}

\* A lookup of the call of request t returned.
Looked(t, out) ==
  /\ calls' = [u \in Tasks |->
                 IF u = t THEN [out.call EXCEPT !.raced = Rivals(t, out.call) # {}]
                 ELSE IF u \in Rivals(t, out.call) THEN [calls[u] EXCEPT !.raced = TRUE]
                 ELSE calls[u]]
  /\ UNCHANGED <<lifeVars, storeVars, last, expected, ncalls, httpVars>>

Check ==
  \E t \in Tasks :
    /\ calls[t].pc = "check"
    /\ Looked(t, IF kind = "mongodb" THEN MongoCheck(users, nextId, calls[t])
                 ELSE SqlCheck(users, nextId, calls[t]))

Check2 ==
  \E t \in Tasks :
    /\ calls[t].pc = "check2"
    /\ Looked(t, IF kind = "mongodb" THEN MongoCheck2(users, nextId, calls[t])
                 ELSE SqlCheck2(users, nextId, calls[t]))

Write ==
  \E t \in Tasks :
    /\ calls[t].pc = "write"
    /\ Resume(t, IF kind = "mongodb" THEN MongoWrite(users, nextId, calls[t])
                 ELSE SqlWrite(users, nextId, calls[t]))

Fetch ==
  \E t \in Tasks :
    /\ calls[t].pc = "fetch"
    /\ Resume(t, IF kind = "mongodb" THEN MongoFetch(users, nextId, calls[t])
                 ELSE SqlFetch(users, nextId, calls[t]))

\* The store fails the round-trip a call is suspended at: the driver raises
\* and the call propagates it; the round-trip has no effect.
StoreFailure ==
  \E t \in Tasks :
    /\ calls[t].pc \in {"check", "check2", "write", "fetch"}
    /\ Resume(t, RaceOutcome(users, nextId, Done(calls[t], Raise("Failure"), "store")))

Race ==
  \/ StartCall
  \/ Check
  \/ Check2
  \/ Write
  \/ Fetch
  \/ StoreFailure

RaceSpec == RaceInit /\ [][Race]_vars

\* C11 as claimed: connect never raises, returns false when any of its steps
\* fails (the connection, the reachability round-trip, the creation of the
\* init collection / users table) and returns true only when all succeeded.
C11_ConnectAsClaimed ==
  last.op = "connect" =>
    /\ last.ret.status \in {"true", "false"}
    /\ last.ret.status = "true" <=> last.data["failed"] = "none"

\* C12: disconnect never raises, in any adapter state (before connect,
\* after a failed connect, after a successful connect, a second time), a
\* failure of the driver's close / dispose included.
C12_DisconnectNeverRaises ==
  last.op = "disconnect" => last.ret.status = "ok"

\* The user endpoints, and the status code each gives on success.
UserEndpoints == {"create_user", "get_all_users", "get_user", "update_user", "delete_user"}

SuccessCode(endpoint) ==
  CASE endpoint = "create_user" -> 201
    [] endpoint = "delete_user" -> 204
    [] OTHER -> 200

\* C15: for the user endpoints with an adapter present, a DuplicateKey
\* failure of the adapter yields 400, an absent/false result 404, every
\* other adapter failure 500, and a successful adapter call yields
\* 201/200/200/204.
C15_OutcomeMapping ==
  (response.endpoint \in UserEndpoints /\ response.adapter # "none") =>
    /\ response.adapter = "DuplicateKey" => response.code = 400
    /\ response.adapter \in {"absent", "false"} => response.code = 404
    /\ response.adapter = "Failure" => response.code = 500
    /\ response.adapter \in {"ok", "true"} => response.code = SuccessCode(response.endpoint)

\* C19: by the end of the lifespan every connection resource the adapter
\* acquired has been released, also when connect() returned false after
\* the client / engine had been created (a release that itself failed
\* apart).
C19_ReleasedAtShutdown ==
  (stage = "stopped" /\ client = "open") =>
    (last.op = "disconnect" /\ last.ret.status = "Failure")

\* The operations of the adapter that the endpoints call.
AdapterOps ==
  {"create_user", "get_all_users", "get_user_by_email", "update_user", "delete_user",
   "health_check"}

\* C20: while the service runs, an adapter operation is only ever called on
\* an adapter whose connect() returned true; with no adapter in
\* app.state.db (the factory returned none, or connect() returned false)
\* every endpoint answers 503 and leaves the adapter and the store alone,
\* and app.state.db stays empty.
C20_NoCallWithoutConnect ==
  /\ [](stage = "serving" /\ app_db # None => phase = "connected")
  /\ [][(stage = "serving" /\ stage' = "serving") =>
          /\ (last' # last /\ last'.op \in AdapterOps) =>
               (app_db # None /\ phase = "connected")
          /\ app_db = None =>
               /\ app_db' = None
               /\ response' # response =>
                    (response'.code = 503 /\ UNCHANGED <<last, lifeVars, storeVars>>)]_vars

\* connect() returned false at startup and a user request was answered 503.
C20_Witness ==
  /\ stage = "serving"
  /\ phase = "connect_failed"
  /\ last.op = "connect"
  /\ app_db = None
  /\ response.endpoint = "update_user"
  /\ response.code = 503

\* The calls of the concurrent requests that have returned or raised.
Finished == {t \in Tasks : calls[t].pc = "done"}

\* C13: a create_user or update_user call that fails because the target
\* email is held by another record raises DuplicateKey, under any
\* interleaving of concurrent calls.
C13_CollisionIsDuplicateKey ==
  \A t \in Finished :
    calls[t].cause = "collision" => calls[t].ret.status = "DuplicateKey"

\* C14: all-or-nothing under any interleaving and with a store failure
\* possible at any round-trip: a call that raised, or returned absent or
\* false, has written nothing.
C14_AllOrNothing ==
  \A t \in Finished :
    calls[t].ret.status \in {"Failure", "DuplicateKey", "absent", "false"} =>
      calls[t].written = 0

\* Two create_user calls of one email were in flight together, both passed
\* the existence check before either had finished, and the store failed
\* neither.
BothPassed ==
  /\ \A t \in Tasks :
       /\ calls[t].pc = "done"
       /\ calls[t].op = "create_user"
       /\ calls[t].passed
       /\ calls[t].raced
       /\ calls[t].cause # "store"
  /\ calls[1].email = calls[2].email

SharingEmail(email) ==
  {i \in 1..Len(users) : HasKey(users[i], "email") /\ users[i]["email"] = email}

\* C16 as claimed: on an adapter, two create_user calls of one email that
\* both pass the existence check both write and both return success, and
\* two stored records share the email.
C16_BothWriteAsClaimed ==
  BothPassed =>
    /\ \A t \in Tasks : calls[t].ret.status = "ok"
    /\ Cardinality(SharingEmail(calls[1].email)) = 2

\* C16: two create_user calls of one email that both pass the existence
\* check both write and both return success in the document adapter, where
\* two stored records then share the email; in the relational adapter the
\* table rejects the second commit, so one call returns success, the other
\* raises an opaque failure, and one row holds the email.
C16_BothWrite ==
  BothPassed =>
    IF kind = "mongodb"
    THEN /\ \A t \in Tasks : calls[t].ret.status = "ok"
         /\ Cardinality(SharingEmail(calls[1].email)) = 2
    ELSE /\ \E t \in Tasks :
              /\ calls[t].ret.status = "ok"
              /\ \A u \in Tasks \ {t} :
                   calls[u].ret.status = "Failure" /\ calls[u].cause = "collision"
         /\ Cardinality(SharingEmail(calls[1].email)) = 1

\* Both calls returned success in the document adapter and the collection
\* holds two records of the email.
C16_Witness ==
  /\ kind = "mongodb"
  /\ BothPassed
  /\ \A t \in Tasks : calls[t].ret.status = "ok"
  /\ Cardinality(SharingEmail(calls[1].email)) = 2

C18_UpdateReturnsMatched ==
  \A t \in Finished :
    calls[t].op = "update_user" =>
      /\ calls[t].ret.status = "ok" =>
           /\ calls[t].ret.users[1].id = Str(calls[t].matched)
           /\ \A k \in DOMAIN calls[t].data : calls[t].ret.users[1][k] = calls[t].data[k]
      /\ calls[t].ret.status = "absent" => calls[t].matched = 0

\* ------------------------------------------------------ connection strings
\* A connection string is a sequence of pieces of text; "h" stands for any
\* text without "+" and without "://".  The empty sequence is the empty string.
UrlTokens == {"postgresql", "mysql", "sqlite", "+", "asyncpg", "://", "h"}

Urls == UNION {[1..n -> UrlTokens] : n \in 0..MaxUrlLen}

\* text in db_url
Contains(db_url, text) == \E i \in 1..Len(db_url) : db_url[i] = text

\* db_url.startswith(prefix)
StartsWith(db_url, prefix) ==
  /\ Len(db_url) >= Len(prefix)
  /\ SubSeq(db_url, 1, Len(prefix)) = prefix

\* db_url.replace(old, new): every occurrence of old, from the left.
RECURSIVE Replace(_, _, _)
Replace(db_url, old, new) ==
  IF db_url = <<>> THEN <<>>
  ELSE IF StartsWith(db_url, old)
       THEN new \o Replace(SubSeq(db_url, Len(old) + 1, Len(db_url)), old, new)
       ELSE <<Head(db_url)>> \o Replace(Tail(db_url), old, new)

Scheme(name) == <<name, "://">>

AsyncDriver == [postgresql |-> "asyncpg", mysql |-> "aiomysql", sqlite |-> "aiosqlite"]

AsyncScheme(name) == <<name, "+", AsyncDriver[name], "://">>

\* SQLAdapter._convert_url_to_async
convert_url_to_async(db_url) ==
  IF Contains(db_url, "+") THEN db_url
  ELSE IF StartsWith(db_url, Scheme("postgresql"))
       THEN Replace(db_url, Scheme("postgresql"), AsyncScheme("postgresql"))
  ELSE IF StartsWith(db_url, Scheme("mysql"))
       THEN Replace(db_url, Scheme("mysql"), AsyncScheme("mysql"))
  ELSE IF StartsWith(db_url, Scheme("sqlite"))
       THEN Replace(db_url, Scheme("sqlite"), AsyncScheme("sqlite"))
  ELSE db_url

\* A relational adapter under construction with any connection string.
UrlInit ==
  /\ kind = "sql"
  /\ library = TRUE
  /\ client = None
  /\ db = None
  /\ reachable \in BOOLEAN
  /\ initialized = FALSE
  /\ phase = "constructed"
  /\ users = <<>>
  /\ nextId = 1
  /\ \E db_url \in Urls : last = Call("SQLAdapter", None, db_url, Return("pending", <<>>))
  /\ expected = {}
  /\ calls = [t \in Tasks |-> Idle]
  /\ ncalls = 0
  /\ stage = "startup"
  /\ app_db = None
  /\ response = NoResponse

\* SQLAdapter._setup_sqlalchemy: the connection string handed to
\* create_async_engine.
setup_sqlalchemy ==
  /\ last.op = "SQLAdapter"
  /\ last' = Call("_convert_url_to_async", None, last.data,
                  Return("ok", <<convert_url_to_async(last.data)>>))
  /\ client' = "open"
  /\ db' = "set"
  /\ UNCHANGED <<kind, library, reachable, initialized, phase, storeVars, expected,
                 raceVars, httpVars>>

UrlSpec == UrlInit /\ [][setup_sqlalchemy]_vars

\* ------------------------------------------------------- adapter factory
\* The environment of the process: the variables that are set, with their
\* values.  The connection strings are ones create_async_engine accepts.
EnvNames ==
  {"DB_TYPE", "DATABASE_URL", "POSTGRES_URL", "MYSQL_URL", "SQLITE_URL",
   "MONGODB_URI", "MONGODB_DB"}

FactoryDbTypes == DbTypes \cup {"SQLite", "POSTGRES"}

FullEnv(t) ==
  [DB_TYPE |-> t,
   DATABASE_URL |-> <<"postgresql", "://", "db.example/app">>,
   POSTGRES_URL |-> <<"postgresql", "+", "asyncpg", "://", "pg.example/app">>,
   MYSQL_URL |-> <<"mysql", "://", "my.example/app">>,
   SQLITE_URL |-> <<"sqlite", "://", "/app.db">>,
   MONGODB_URI |-> <<"mongodb", "://", "mongo.example">>,
   MONGODB_DB |-> "appdb"]

Envs == {[n \in S |-> FullEnv(t)[n]] : t \in FactoryDbTypes, S \in SUBSET EnvNames}

\* os.getenv(name, default)
getenv(env, name, default) == IF HasKey(env, name) THEN env[name] ELSE default

\* get_database_adapter: the URL variable and the default connection string
\* of each relational type.
UrlVariable ==
  [postgresql |-> "POSTGRES_URL", postgres |-> "POSTGRES_URL",
   mysql |-> "MYSQL_URL", sqlite |-> "SQLITE_URL"]

DefaultUrl ==
  [postgresql |-> <<"postgresql", "://", "localhost/mydb">>,
   postgres |-> <<"postgresql", "://", "localhost/mydb">>,
   mysql |-> <<"mysql", "://", "root@localhost/mydb">>,
   sqlite |-> <<"sqlite", "://", "/./mydb.db">>]

\* get_database_adapter: db_url of a relational type.
db_url_of(env, db_type) ==
  IF HasKey(env, "DATABASE_URL") THEN env["DATABASE_URL"]
  ELSE IF HasKey(env, UrlVariable[db_type]) THEN env[UrlVariable[db_type]]
  ELSE DefaultUrl[db_type]

\* MongoDBAdapter(uri, db_name) and SQLAdapter(db_url) as constructed by
\* the factory.
NewAdapter(env, importable) ==
  LET db_type == Lower(getenv(env, "DB_TYPE", "mongodb")) IN
  IF db_type = "mongodb"
  THEN <<[uri |-> getenv(env, "MONGODB_URI", <<"mongodb", "://", "localhost:27017">>),
          db_name |-> getenv(env, "MONGODB_DB", "dummydatabase")]>>
  ELSE IF db_type \in DOMAIN UrlVariable
       THEN <<[db_url |-> db_url_of(env, db_type),
               sqlalchemy_available |-> importable,
               async_db_url |-> IF importable
                                THEN convert_url_to_async(db_url_of(env, db_type))
                                ELSE <<>>]>>
       ELSE <<>>

\* The process before the factory is called.
FactoryInit ==
  /\ kind = None
  /\ library \in BOOLEAN
  /\ client = None
  /\ db = None
  /\ reachable \in BOOLEAN
  /\ initialized = FALSE
  /\ phase = "constructed"
  /\ users = <<>>
  /\ nextId = 1
  /\ \E env \in Envs : last = Call("environ", None, env, Return("pending", <<>>))
  /\ expected = {}
  /\ calls = [t \in Tasks |-> Idle]
  /\ ncalls = 0
  /\ stage = "startup"
  /\ app_db = None
  /\ response = NoResponse

\* get_database_adapter()
get_adapter ==
  /\ last.op = "environ"
  /\ kind' = get_database_adapter(getenv(last.data, "DB_TYPE", "mongodb"))
  /\ last' = Call("get_database_adapter", None, last.data,
                  Return(kind', NewAdapter(last.data, library)))
  /\ client' = IF kind' = "sql" /\ library THEN "open" ELSE None
  /\ db' = IF kind' = "sql" /\ library THEN "set" ELSE None
  /\ UNCHANGED <<library, reachable, initialized, phase, storeVars, expected,
                 raceVars, httpVars>>

FactorySpec == FactoryInit /\ [][get_adapter]_vars

\* ------------------------------------------------- the adapters side by side
\* Two services, one on each adapter, are sent the same calls one at a time:
\* users, nextId and last.ret are pairs, the document adapter's first and
\* the relational adapter's second.  Both stores stay reachable.
PairInit ==
  /\ kind = "both"
  /\ library = TRUE
  /\ client = "open"
  /\ db = "set"
  /\ reachable = TRUE
  /\ initialized = TRUE
  /\ phase = "connected"
  /\ users = <<(<<>>), (<<>>)>>
  /\ nextId = <<1, 1>>
  /\ last = Call("connect", None, FailedStep("none"), <<Return("true", <<>>), Return("true", <<>>)>>)
  /\ expected = {}
  /\ calls = [t \in Tasks |-> Idle]
  /\ ncalls = 0
  /\ stage = "serving"
  /\ app_db = "adapter"
  /\ response = NoResponse

PairApply(op, email, data, mongo, sql) ==
  /\ users' = <<mongo.users, sql.users>>
  /\ nextId' = <<mongo.nextId, sql.nextId>>
  /\ last' = Call(op, email, data, <<mongo.ret, sql.ret>>)
  /\ UNCHANGED <<lifeVars, expected, raceVars, httpVars>>

PairCreateUser ==
  /\ Serving
  /\ \E user_data \in CreateData :
       LET mongo == MongoCreateUser(users[1], nextId[1], user_data)
           sql == SqlCreateUser(users[2], nextId[2], user_data)
       IN /\ mongo.nextId = nextId[1] \/ nextId[1] <= MaxCreates
          /\ sql.nextId = nextId[2] \/ nextId[2] <= MaxCreates
          /\ PairApply("create_user", user_data["email"], user_data, mongo, sql)

PairGetAllUsers ==
  /\ Serving
  /\ PairApply("get_all_users", None, NoData,
               Outcome(users[1], nextId[1], MongoGetAllUsers(users[1])),
               Outcome(users[2], nextId[2], SqlGetAllUsers(users[2])))

PairGetUserByEmail ==
  /\ Serving
  /\ \E email \in Emails :
       PairApply("get_user_by_email", email, NoData,
                 Outcome(users[1], nextId[1], MongoGetUserByEmail(users[1], email)),
                 Outcome(users[2], nextId[2], SqlGetUserByEmail(users[2], email)))

PairUpdateUser ==
  /\ Serving
  /\ \E email \in Emails, update_data \in ServiceUpdateData :
     \E emptySetOk \in IF DOMAIN update_data = {} THEN BOOLEAN ELSE {TRUE} :
       PairApply("update_user", email, update_data,
                 MongoUpdateUser(users[1], nextId[1], email, update_data, emptySetOk),
                 SqlUpdateUser(users[2], nextId[2], email, update_data))

PairDeleteUser ==
  /\ Serving
  /\ \E email \in Emails :
       PairApply("delete_user", email, NoData,
                 MongoDeleteUser(users[1], nextId[1], email),
                 SqlDeleteUser(users[2], nextId[2], email))

PairOps ==
  \/ PairCreateUser
  \/ PairGetAllUsers
  \/ PairGetUserByEmail
  \/ PairUpdateUser
  \/ PairDeleteUser

PairSpec == PairInit /\ [][PairOps]_vars

CanonicalFields == {"id", "name", "email", "age"}

\* The canonical record of a stored document: the defaults for what it lacks.
Canonical(d) ==
  [k \in CanonicalFields |->
     CASE k = "id" -> IF HasKey(d, "_id") THEN Str(d["_id"]) ELSE ""
       [] k = "age" -> IF HasKey(d, "age") THEN d["age"] ELSE None
       [] OTHER -> IF HasKey(d, k) THEN d[k] ELSE ""]

\* C21: every record returned by a read, a create or an update of either
\* adapter has exactly the fields id, name, email and age; the document
\* adapter converts a document that lacks a field without raising, id, name
\* and email defaulting to the empty string and age to null.
C21_CanonicalRecords ==
  /\ (last.op \in {"create_user", "get_all_users", "get_user_by_email", "update_user",
                   "convert_user_to_dict"} /\ last.ret.status = "ok") =>
       \A i \in 1..Len(last.ret.users) : DOMAIN last.ret.users[i] = CanonicalFields
  /\ (kind = "mongodb" /\ last.op = "convert_user_to_dict") =>
       /\ last.ret.status = "ok"
       /\ last.ret.users[1] = Canonical(last.data)
  /\ (kind = "mongodb" /\ last.op = "get_all_users") =>
       /\ last.ret.status = "ok"
       /\ Len(last.ret.users) = Len(users)
       /\ \A i \in 1..Len(users) : last.ret.users[i] = Canonical(users[i])

\* A stored document without a name and an age was read by its email and
\* returned with the defaults.
C21_Witness ==
  /\ kind = "mongodb"
  /\ last.op = "get_user_by_email"
  /\ last.ret.status = "ok"
  /\ \E i \in 1..Len(users) : DOMAIN users[i] = {"_id", "email"}
  /\ last.ret.users[1].name = ""
  /\ last.ret.users[1].age = None

SupportedSchemes == {"postgresql", "mysql", "sqlite"}

\* C23: a connection string that starts with exactly postgresql://, mysql://
\* or sqlite:// is rewritten to the asynchronous driver scheme with the rest
\* unchanged, also when a "+" occurs after the scheme; any other connection
\* string is left as it is.
C23_RewriteAsClaimed ==
  last.op = "_convert_url_to_async" =>
    LET db_url == last.data
        async_db_url == last.ret.users[1]
    IN IF \E name \in SupportedSchemes : StartsWith(db_url, Scheme(name))
       THEN \E name \in SupportedSchemes :
              /\ StartsWith(db_url, Scheme(name))
              /\ async_db_url = AsyncScheme(name) \o SubSeq(db_url, 3, Len(db_url))
       ELSE async_db_url = db_url

RelationalTypes == {"postgresql", "postgres", "mysql", "sqlite"}

\* C22: the factory matches DB_TYPE without regard to case; mongodb gives
\* the document adapter, postgresql, postgres, mysql and sqlite give the
\* relational adapter and any other type gives None; a relational adapter
\* gets the default connection string of its type only if neither
\* DATABASE_URL nor the URL variable of the type is set, and otherwise a
\* configured one.
C22_FactorySelection ==
  last.op = "get_database_adapter" =>
    LET env == last.data
        db_type == Lower(getenv(env, "DB_TYPE", "mongodb"))
        built == last.ret.users
    IN /\ db_type = "mongodb" =>
            /\ last.ret.status = "mongodb"
            /\ Len(built) = 1
            /\ DOMAIN built[1] = {"uri", "db_name"}
       /\ db_type \in RelationalTypes =>
            /\ last.ret.status = "sql"
            /\ Len(built) = 1
            /\ built[1].db_url = DefaultUrl[db_type] =>
                 /\ ~HasKey(env, "DATABASE_URL")
                 /\ ~HasKey(env, UrlVariable[db_type])
            /\ built[1].db_url # DefaultUrl[db_type] =>
                 \E n \in {"DATABASE_URL", UrlVariable[db_type]} :
                   HasKey(env, n) /\ built[1].db_url = env[n]
       /\ db_type \notin RelationalTypes \cup {"mongodb"} =>
            /\ last.ret.status = None
            /\ built = <<>>

\* DB_TYPE=SQLite with no connection string set gave a relational adapter
\* with the default of sqlite.
C22_Witness ==
  /\ last.op = "get_database_adapter"
  /\ HasKey(last.data, "DB_TYPE")
  /\ last.data["DB_TYPE"] = "SQLite"
  /\ ~HasKey(last.data, "DATABASE_URL")
  /\ ~HasKey(last.data, "SQLITE_URL")
  /\ last.ret.status = "sql"
  /\ last.ret.users[1].db_url = DefaultUrl["sqlite"]

\* A returned record without its id.
WithoutId(r) == [k \in DOMAIN r \ {"id"} |-> r[k]]

\* C24: sent the same calls one at a time, the document adapter and the
\* relational adapter return the same kind of outcome for each call and
\* records with the same name, email and age.
C24_SameOutcomeAsClaimed ==
  last.op \in {"create_user", "get_all_users", "get_user_by_email", "update_user",
               "delete_user"} =>
    /\ last.ret[1].status = last.ret[2].status
    /\ {WithoutId(last.ret[1].users[i]) : i \in 1..Len(last.ret[1].users)}
         = {WithoutId(last.ret[2].users[i]) : i \in 1..Len(last.ret[2].users)}

====
